---- MODULE Spec2Model ----
(***************************************************************************)
(* The auto-tagger script (scripts/auto_tagger.py), run from the command   *)
(* line: main() with post_id = None and tmp_media_path = None.             *)
(*                                                                         *)
(* The state is main()'s locals, the two configuration dictionaries, the   *)
(* statistics counters, what the server and the temporary directory hold   *)
(* for the current post, and a record of what the current iteration did.   *)
(* Every collaborator answer (posts, search results, quotas, classifier    *)
(* tags, failures) is drawn from a small set at the call that receives it. *)
(***************************************************************************)
EXTENDS Integers, Sequences, FiniteSets, TLC

\* Most posts the server reports for a query.
MaxPosts == 2

\* sleep(35) after the short limit has been reached.
SleepSeconds == 35

Digits == {"0", "1", "2", "3", "4", "5", "6", "7", "8", "9"}

\* The command-line queries tried, as sequences of characters:
\* "type:x", "a type:", "7", "7e".
Queries ==
    { <<"t", "y", "p", "e", ":", "x">>,
      <<"a", " ", "t", "y", "p", "e", ":">>,
      <<"7">>,
      <<"7", "e">> }

TypeToken == <<"t", "y", "p", "e", ":">>

\* Faulty variant of Contains: the token is looked for at the start of the query
\* only (startswith in place of in).
ContainsAtStart(q, pat) ==
    Len(q) >= Len(pat) /\ SubSeq(q, 1, Len(pat)) = pat

\* pat in q  (Python's substring test on str)
Contains(q, pat) ==
    \E i \in 0..(Len(q) - Len(pat)) : SubSeq(q, i + 1, i + Len(pat)) = pat

\* str.isnumeric(): at least one character and every character a digit
isnumeric(q) == Len(q) > 0 /\ \A i \in 1..Len(q) : q[i] \in Digits

\* Values of --add-tags / --remove-tags after the split at commas; {} stands
\* for an option that was not given (None, which is falsy like an empty list).
AddTagArgs == { {}, {"a", "tagme"} }
RemoveTagArgs == { {}, {"a"} }

\* Tag lists a post may already carry on the server.
ExistingTags == { {}, {"a", "tagme"} }

\* Tag lists the search client may return (before sanitize_tags).
SearchTags == { {}, {"deepbooru"}, {"x y"} }

\* Remaining calls (short or long period) the search client may report.
Quotas == {0, 5}

\* Tag lists the classifier may return.
ClassifierTags == { {}, {"a"} }

\* The tags of the post a relation points to, as getPost returns them.
RelatedPostTags ==
    << [primary_name |-> "r", category |-> "artist"],
       [primary_name |-> "tagme", category |-> "meta"],
       [primary_name |-> "a", category |-> "default"] >>

\* The relation lists a post may carry: none, or one related post.
RelationLists == { <<>>, << [id |-> 1] >> }

Placeholders == {"deepbooru", "tagme"}

Range(s) == { s[i] : i \in 1..Len(s) }

\* sanitize_tags on one tag: blanks become underscores.
sanitize_tag(t) == IF t = "x y" THEN "x_y" ELSE t

sanitize_tags(ts) == { sanitize_tag(t) : t \in ts }

\* Every order list(set(...)) may give the elements of S: the iteration order
\* of a set of strings depends on the process's hash seed.
RECURSIVE Orderings(_)
Orderings(S) ==
    IF S = {} THEN { <<>> }
    ELSE UNION { { <<x>> \o p : p \in Orderings(S \ {x}) } : x \in S }

\* list.remove(x): drops the first occurrence of x.
RECURSIVE ListRemove(_, _)
ListRemove(L, x) ==
    IF L = <<>> THEN <<>>
    ELSE IF Head(L) = x THEN Tail(L)
    ELSE <<Head(L)>> \o ListRemove(Tail(L), x)

\* [post.tags.remove(tag) for tag in post.tags if tag == 'deepbooru' or
\* tag == 'tagme']: the list iterator keeps a position i into the list that is
\* being shortened under it.
RECURSIVE RemovePlaceholders(_, _)
RemovePlaceholders(L, i) ==
    IF i > Len(L) THEN L
    ELSE IF L[i] \in Placeholders
         THEN RemovePlaceholders(ListRemove(L, L[i]), i + 1)
         ELSE RemovePlaceholders(L, i + 1)

\* [post.tags.remove(tag) for tag in remove_tags if tag in post.tags] on a
\* list without duplicates.
RemoveTags(S, remove) == S \ remove

\* The test set_tags_from_relations applies to a related post's tag.
CopiesCategory(category) == ~(category = "default") \/ ~(category = "meta")

\* set_tags_from_relations: the names appended to post.tags.
set_tags_from_relations(relations) ==
    IF relations = <<>> THEN {}
    ELSE { RelatedPostTags[i].primary_name :
             i \in { j \in 1..Len(RelatedPostTags) :
                       CopiesCategory(RelatedPostTags[j].category) } }

\* A source text is a sequence of these pieces: the marker older versions
\* wrote, the marker this version writes, some other source, a line break.
SourceAtoms == {"DeepBooru", "Deepbooru", "x", "\n"}

\* Longest source text tried, in pieces.
MaxSourceLen == 3

\* How often the source normalisation is applied to one text.
MaxApplications == 2

RECURSIVE SeqsUpTo(_, _)
SeqsUpTo(S, n) ==
    IF n = 0 THEN { <<>> }
    ELSE LET shorter == SeqsUpTo(S, n - 1)
         IN shorter \cup { Append(t, x) : t \in shorter, x \in S }

SourceTexts == SeqsUpTo(SourceAtoms, MaxSourceLen)

\* Source texts a post may carry on the server in a run of main().
ExistingSources == { <<"DeepBooru">> }

\* Source texts the search client may return.
SearchSources == { <<"x">> }

\* str.replace(pat, ''): every occurrence of pat, from the left, is dropped.
RECURSIVE Remove(_, _)
Remove(s, pat) ==
    IF Len(s) < Len(pat) THEN s
    ELSE IF SubSeq(s, 1, Len(pat)) = pat
         THEN Remove(SubSeq(s, Len(pat) + 1, Len(s)), pat)
         ELSE << Head(s) >> \o Remove(Tail(s), pat)

\* str.splitlines(): the lines of s; a line break at the end opens no line.
RECURSIVE splitlines(_)
splitlines(s) ==
    IF s = <<>> THEN <<>>
    ELSE IF \E i \in 1..Len(s) : s[i] = "\n"
         THEN LET k == CHOOSE i \in 1..Len(s) :
                         s[i] = "\n" /\ \A j \in 1..(i - 1) : s[j] # "\n"
              IN << SubSeq(s, 1, k - 1) >> \o splitlines(SubSeq(s, k + 1, Len(s)))
         ELSE << s >>

\* '\n'.join(lines)
RECURSIVE join(_)
join(lines) ==
    IF lines = <<>> THEN <<>>
    ELSE IF Len(lines) = 1 THEN lines[1]
    ELSE lines[1] \o << "\n" >> \o join(Tail(lines))

\* The sources of a list that are not empty and did not occur before.
RECURSIVE Distinct(_, _)
Distinct(sources, seen) ==
    IF sources = <<>> THEN <<>>
    ELSE IF Head(sources) = <<>> \/ Head(sources) \in seen
         THEN Distinct(Tail(sources), seen)
         ELSE << Head(sources) >>
                 \o Distinct(Tail(sources), seen \cup { Head(sources) })

\* collect_sources(*sources): the sources without the empty and the repeated
\* ones, in their order, one per line.
collect_sources(sources) == join(Distinct(sources, {}))

\* main(), lines 241-246: the old marker is cut out where a line break
\* stands next to it, and the marker is added when the text does not hold it.
NormalizeSource(source) ==
    LET cut == IF Contains(source, << "DeepBooru" >>)
               THEN Remove(Remove(source, << "DeepBooru", "\n" >>),
                           << "\n", "DeepBooru" >>)
               ELSE source
    IN IF ~Contains(cut, << "Deepbooru" >>)
       THEN collect_sources(<< cut, << "Deepbooru" >> >>)
       ELSE cut

VARIABLES
    config,         \* config.auto_tagger / config.szurubooru switches
    args,           \* what parse_args returns
    pc,             \* where main() is
    error,          \* the exception that ended main(), "none" otherwise
    sauce,          \* TRUE once SauceNao(config) is bound
    deepbooru,      \* TRUE once Deepbooru(...) is bound
    total_posts,
    index,
    post,           \* the local copy of the current post
    tags,           \* tags discovered for the current post
    limit_reached,
    tmp_file,       \* "None" or "file"
    stats,          \* statistics(): tagged, deepbooru, untagged
    remote,         \* server side: the current post's tags, the temp file
    calls,          \* collaborator calls made so far in the run
    it,             \* what the current iteration has done
    events          \* the order of the current iteration's steps

vars == << config, args, pc, error, sauce, deepbooru, total_posts, index, post,
           tags, limit_reached, tmp_file, stats, remote, calls, it, events >>

\* limit_at: the index of the post at which the search client first reported
\* a long-period quota of 0, -1 before.  slept: the seconds slept in the run.
NoCalls ==
    [ get_posts |-> 0, fetch |-> 0, download |-> 0, search |-> 0,
      classify |-> 0, get_relation |-> 0, update |-> 0, scrape |-> 0,
      limit_at |-> -1, slept |-> 0 ]

\* limit_short, limit_long: the quotas of the search client's answer, -1 before.
NewIteration ==
    [ pre |-> {}, searched |-> 0, limit_short |-> -1, limit_long |-> -1,
      search_hit |-> FALSE, found_search |-> {}, slept |-> 0, classified |-> 0, classify_hit |-> FALSE,
      found_classifier |-> {}, copied |-> {}, tagged |-> 0, deep |-> 0,
      untagged |-> 0, rest |-> 0, updates |-> 0, pushed |-> {},
      aborted |-> FALSE ]

Init ==
    /\ config \in [ saucenao_enabled : BOOLEAN, deepbooru_enabled : BOOLEAN,
                    deepbooru_forced : BOOLEAN, public : BOOLEAN ]
    /\ args \in [ sankaku_url : {"None", "url"}, query : Queries,
                  add_tags : AddTagArgs, remove_tags : RemoveTagArgs ]
    /\ pc = "start"
    /\ error = "none"
    /\ sauce = FALSE
    /\ deepbooru = FALSE
    /\ total_posts = 0
    /\ index = 0
    /\ post = [ tags |-> {}, relations |-> <<>>, source |-> <<>> ]
    /\ tags = {}
    /\ limit_reached = FALSE
    /\ tmp_file = "None"
    /\ stats = [ tagged |-> 0, deepbooru |-> 0, untagged |-> 0 ]
    /\ remote = [ tags |-> {}, file |-> FALSE ]
    /\ calls = NoCalls
    /\ it = NewIteration
    /\ events = <<>>

\* Faulty variant of Raise: the exception is caught inside the loop body and the
\* loop goes on with the end of the iteration.
RaiseCaught(e) == pc' = "check_limit" /\ error' = e

\* An exception leaves main(): logger.catch logs it and main() returns.
Raise(e) == pc' = "crashed" /\ error' = e

\* main(), lines 154-156: nothing enabled, nothing to do.
CheckConfig ==
    /\ pc = "start"
    /\ pc' = IF ~config.saucenao_enabled /\ ~config.deepbooru_enabled
             THEN "exited" ELSE "parse_args"
    /\ UNCHANGED << config, args, error, sauce, deepbooru, total_posts, index,
                    post, tags, limit_reached, tmp_file, stats, remote, calls,
                    it, events >>

\* parse_args(): the reserved token ends the process.
parse_args ==
    /\ pc = "parse_args"
    /\ pc' = IF Contains(args.query, TypeToken) THEN "exited" ELSE "construct"
    /\ events' = IF Contains(args.query, TypeToken)
                 THEN Append(events, "critical") ELSE events
    /\ UNCHANGED << config, args, error, sauce, deepbooru, total_posts, index,
                    post, tags, limit_reached, tmp_file, stats, remote, calls,
                    it >>

\* main(), lines 167-173: the collaborators that are enabled are constructed.
Construct ==
    /\ pc = "construct"
    /\ sauce' = config.saucenao_enabled
    /\ deepbooru' = config.deepbooru_enabled
    /\ pc' = "get_posts"
    /\ UNCHANGED << config, args, error, total_posts, index, post, tags,
                    limit_reached, tmp_file, stats, remote, calls, it, events >>

\* main(), lines 178-179: the post list is requested and its first element,
\* the total, is read.  A numeric query names a single post.
GetPosts ==
    /\ pc = "get_posts"
    /\ \E n \in 0..MaxPosts :
          /\ isnumeric(args.query) => n = 1
          /\ total_posts' = n
    /\ calls' = [calls EXCEPT !.get_posts = @ + 1]
    /\ pc' = IF args.sankaku_url # "None" THEN "sankaku" ELSE "loop"
    /\ UNCHANGED << config, args, error, sauce, deepbooru, index, post, tags,
                    limit_reached, tmp_file, stats, remote, it, events >>

\* main(), lines 186-187: the post is taken from the server and
\* scrape_sankaku raises, outside the try statement.
SankakuScrapeFails ==
    /\ pc = "sankaku"
    /\ isnumeric(args.query)
    /\ \E pre \in ExistingTags, rel \in RelationLists,
          source \in ExistingSources :
          /\ post' = [ tags |-> pre, relations |-> rel, source |-> source ]
          /\ remote' = [remote EXCEPT !.tags = pre]
          /\ it' = [NewIteration EXCEPT !.pre = pre]
    /\ calls' = [calls EXCEPT !.fetch = @ + 1, !.scrape = @ + 1]
    /\ events' = events \o << "scrape", "error" >>
    /\ Raise("scrape_sankaku")
    /\ UNCHANGED << config, args, sauce, deepbooru, total_posts, index,
                    tags, limit_reached, tmp_file, stats >>

\* Faulty variant of SankakuPost: the failure of update_post is not caught, it
\* leaves main() and the post is not counted.
SankakuPostRaises ==
    /\ pc = "sankaku"
    /\ isnumeric(args.query)
    /\ \E pre \in ExistingTags, rel \in RelationLists,
          scraped \in ClassifierTags, ok \in BOOLEAN :
          /\ post' = [ tags |-> scraped, relations |-> rel,
                       source |-> << args.sankaku_url >> ]
          /\ it' = [NewIteration EXCEPT !.pre = pre, !.updates = 1,
                                       !.pushed = IF ok THEN scraped ELSE {},
                                       !.tagged = IF ok THEN 1 ELSE 0]
          /\ remote' = [remote EXCEPT !.tags = IF ok THEN scraped ELSE pre]
          /\ stats' = IF ok THEN [stats EXCEPT !.tagged = @ + 1] ELSE stats
          /\ events' = events \o << "scrape", "patch" >>
                         \o (IF ok THEN <<>> ELSE << "error" >>)
          /\ pc' = IF ok THEN "summary" ELSE "crashed"
          /\ error' = IF ok THEN error ELSE "update_post"
    /\ calls' = [calls EXCEPT !.fetch = @ + 1, !.scrape = @ + 1, !.update = @ + 1]
    /\ UNCHANGED << config, args, sauce, deepbooru, total_posts, index,
                    tags, limit_reached, tmp_file >>

\* main(), lines 185-195: --sankaku_url with a post id.  The post the server
\* gave keeps its relations; its tags and its source are replaced.
SankakuPost ==
    /\ pc = "sankaku"
    /\ isnumeric(args.query)
    /\ \E pre \in ExistingTags, rel \in RelationLists,
          scraped \in ClassifierTags, ok \in BOOLEAN :
          /\ post' = [ tags |-> scraped, relations |-> rel,
                       source |-> << args.sankaku_url >> ]
          /\ it' = [NewIteration EXCEPT !.pre = pre, !.updates = 1,
                                       !.pushed = IF ok THEN scraped ELSE {},
                                       !.tagged = IF ok THEN 1 ELSE 0,
                                       !.untagged = IF ok THEN 0 ELSE 1]
          /\ remote' = [remote EXCEPT !.tags = IF ok THEN scraped ELSE pre]
          /\ stats' = IF ok THEN [stats EXCEPT !.tagged = @ + 1]
                      ELSE [stats EXCEPT !.untagged = @ + 1]
          /\ events' = events \o << "scrape", "patch" >>
                         \o (IF ok THEN <<>> ELSE << "error" >>)
    /\ calls' = [calls EXCEPT !.fetch = @ + 1, !.scrape = @ + 1, !.update = @ + 1]
    /\ pc' = "summary"
    /\ UNCHANGED << config, args, error, sauce, deepbooru, total_posts, index,
                    tags, limit_reached, tmp_file >>

\* main(), lines 196-197: --sankaku_url with any other query.
SankakuUsage ==
    /\ pc = "sankaku"
    /\ ~isnumeric(args.query)
    /\ events' = Append(events, "critical")
    /\ pc' = "summary"
    /\ UNCHANGED << config, args, error, sauce, deepbooru, total_posts, index,
                    post, tags, limit_reached, tmp_file, stats, remote, calls,
                    it >>

\* The for statement, lines 199-209: the next post is taken from the server
\* and tags starts empty.
NextPost ==
    /\ pc = "loop"
    /\ index < total_posts
    /\ \E pre \in ExistingTags, rel \in RelationLists,
          source \in ExistingSources :
          /\ post' = [ tags |-> pre, relations |-> rel, source |-> source ]
          /\ remote' = [remote EXCEPT !.tags = pre]
          /\ it' = [NewIteration EXCEPT !.pre = pre]
    /\ tags' = {}
    /\ events' = <<>>
    /\ calls' = [calls EXCEPT !.fetch = @ + 1]
    /\ pc' = "fetch_media"
    /\ UNCHANGED << config, args, error, sauce, deepbooru, total_posts, index,
                    limit_reached, tmp_file, stats >>

\* The for statement when the posts are used up.
LoopEnd ==
    /\ pc = "loop"
    /\ ~(index < total_posts)
    /\ pc' = "summary"
    /\ UNCHANGED << config, args, error, sauce, deepbooru, total_posts, index,
                    post, tags, limit_reached, tmp_file, stats, remote, calls,
                    it, events >>

\* main(), line 211: when the media is downloaded first.
NeedsDownload == ~config.public \/ config.deepbooru_enabled

\* main(), lines 211-214, download_media succeeding or skipped.
FetchMedia ==
    /\ pc = "fetch_media"
    /\ IF NeedsDownload
       THEN /\ tmp_file' = "file"
            /\ remote' = [remote EXCEPT !.file = TRUE]
            /\ calls' = [calls EXCEPT !.download = @ + 1]
            /\ events' = Append(events, "download")
       ELSE /\ tmp_file' = "None"
            /\ UNCHANGED << remote, calls, events >>
    /\ pc' = "search"
    /\ UNCHANGED << config, args, error, sauce, deepbooru, total_posts, index,
                    post, tags, limit_reached, stats, it >>

\* download_media raising: in urlretrieve (line 117), before anything is
\* written, or in shrink_img (line 122), after urlretrieve wrote the file;
\* tmp_file is not assigned and the file, when written, stays.
FetchMediaFails ==
    /\ pc = "fetch_media"
    /\ NeedsDownload
    /\ \E written \in BOOLEAN :
          remote' = [remote EXCEPT !.file = written]
    /\ calls' = [calls EXCEPT !.download = @ + 1]
    /\ events' = events \o << "download", "error" >>
    /\ Raise("download_media")
    /\ UNCHANGED << config, args, sauce, deepbooru, total_posts, index, post,
                    tags, limit_reached, tmp_file, stats, it >>

\* Faulty variant of LimitReached: a used-up short-period quota sets the flag
\* as well.
LimitReachedEither(limit_short, limit_long) == limit_long = 0 \/ limit_short = 0

\* parse_saucenao_results, lines 95-101: the long-period quota is used up.
LimitReached(limit_short, limit_long) == limit_long = 0

\* parse_saucenao_results, lines 95-99: the seconds slept after a response.
Backoff(limit_short, limit_long) ==
    IF ~(limit_long = 0) /\ limit_short = 0 THEN SleepSeconds ELSE 0

\* Faulty variant of DisablesSauce: the search client is never switched off.
DisablesSauceNever(reached) == FALSE

\* parse_saucenao_results, lines 107-108: the search client is switched off.
DisablesSauce(reached) == reached /\ config.deepbooru_enabled

\* main(), lines 223-226 and 236-239: list(set().union(post.tags, tags,
\* add_tags)), or without add_tags when none were given.
MergeTags(old, found, add) == IF add # {} THEN old \cup found \cup add
                              ELSE old \cup found

\* main(), lines 216-226 with parse_saucenao_results: one call of the search
\* client, the merge of the sources, the quota handling, the "tagged" counter
\* and the merge of the tags.
Search ==
    /\ pc = "search"
    /\ config.saucenao_enabled
    /\ \E found \in SearchTags, source \in SearchSources,
          limit_short \in Quotas, limit_long \in Quotas :
          LET reached == LimitReached(limit_short, limit_long)
              clean == sanitize_tags(found)
          IN /\ limit_reached' = reached
             /\ stats' = IF found # {} THEN [stats EXCEPT !.tagged = @ + 1]
                         ELSE stats
             /\ config' = IF DisablesSauce(reached)
                          THEN [config EXCEPT !.saucenao_enabled = FALSE]
                          ELSE config
             /\ tags' = clean
             /\ post' = [post EXCEPT
                           !.tags = MergeTags(@, clean, args.add_tags),
                           !.source = collect_sources(splitlines(source)
                                                        \o splitlines(@))]
             /\ calls' = [calls EXCEPT
                            !.search = @ + 1,
                            !.limit_at = IF reached /\ @ = -1 THEN index ELSE @,
                            !.slept = @ + Backoff(limit_short, limit_long)]
             /\ it' = [it EXCEPT
                         !.searched = @ + 1,
                         !.limit_short = limit_short,
                         !.limit_long = limit_long,
                         !.search_hit = (found # {}),
                         !.found_search = clean,
                         !.slept = @ + Backoff(limit_short, limit_long),
                         !.tagged = @ + (IF found # {} THEN 1 ELSE 0)]
             /\ events' = events \o << "search" >>
                            \o (IF Backoff(limit_short, limit_long) > 0
                                THEN << "sleep" >> ELSE <<>>)
    /\ pc' = "classify"
    /\ UNCHANGED << args, error, sauce, deepbooru, total_posts, index,
                    tmp_file, remote >>

\* sauce.get_metadata raising.
SearchFails ==
    /\ pc = "search"
    /\ config.saucenao_enabled
    /\ calls' = [calls EXCEPT !.search = @ + 1]
    /\ it' = [it EXCEPT !.searched = @ + 1]
    /\ events' = events \o << "search", "error" >>
    /\ Raise("get_metadata")
    /\ UNCHANGED << config, args, sauce, deepbooru, total_posts, index, post,
                    tags, limit_reached, tmp_file, stats, remote >>

\* main(), lines 227-228: the search client is not enabled.
SearchSkipped ==
    /\ pc = "search"
    /\ ~config.saucenao_enabled
    /\ limit_reached' = FALSE
    /\ pc' = "classify"
    /\ UNCHANGED << config, args, error, sauce, deepbooru, total_posts, index,
                    post, tags, tmp_file, stats, remote, calls, it, events >>

\* main(), line 230: when the classifier branch is taken.
RunsClassifier ==
    (tags = {} /\ config.deepbooru_enabled) \/ config.deepbooru_forced

\* main(), lines 230-251 with set_tags_from_relations: the classifier's tags
\* replace the discovered tags, relation tags are appended, the lists are
\* merged, the source is normalised and the post is counted.
Classify ==
    /\ pc = "classify"
    /\ RunsClassifier
    /\ deepbooru
    /\ \E found \in ClassifierTags :
          LET copied == set_tags_from_relations(post.relations)
          IN /\ tags' = found
             /\ post' = [post EXCEPT
                           !.tags = MergeTags(@ \cup copied, found, args.add_tags),
                           !.source = NormalizeSource(@)]
             /\ stats' = IF found # {} THEN [stats EXCEPT !.deepbooru = @ + 1]
                         ELSE [stats EXCEPT !.untagged = @ + 1]
             /\ calls' = [calls EXCEPT !.classify = @ + 1,
                                       !.get_relation = @ + Len(post.relations)]
             /\ it' = [it EXCEPT
                         !.classified = @ + 1,
                         !.classify_hit = (found # {}),
                         !.found_classifier = found,
                         !.copied = copied,
                         !.deep = @ + (IF found # {} THEN 1 ELSE 0),
                         !.untagged = @ + (IF found # {} THEN 0 ELSE 1)]
    /\ events' = Append(events, "classify")
    /\ pc' = "cleanup"
    /\ UNCHANGED << config, args, error, sauce, deepbooru, total_posts, index,
                    limit_reached, tmp_file, remote >>

\* main(), line 231 when Deepbooru was never constructed: the name deepbooru
\* is unbound.
ClassifyUnbound ==
    /\ pc = "classify"
    /\ RunsClassifier
    /\ ~deepbooru
    /\ events' = Append(events, "error")
    /\ Raise("UnboundLocalError")
    /\ UNCHANGED << config, args, sauce, deepbooru, total_posts, index, post,
                    tags, limit_reached, tmp_file, stats, remote, calls, it >>

\* deepbooru.tag_image raising.
ClassifyFails ==
    /\ pc = "classify"
    /\ RunsClassifier
    /\ deepbooru
    /\ calls' = [calls EXCEPT !.classify = @ + 1]
    /\ it' = [it EXCEPT !.classified = @ + 1]
    /\ events' = events \o << "classify", "error" >>
    /\ Raise("tag_image")
    /\ UNCHANGED << config, args, sauce, deepbooru, total_posts, index, post,
                    tags, limit_reached, tmp_file, stats, remote >>

\* main(), lines 252-253: no classifier run; a post without tags is counted.
ClassifySkipped ==
    /\ pc = "classify"
    /\ ~RunsClassifier
    /\ stats' = IF tags = {} THEN [stats EXCEPT !.untagged = @ + 1] ELSE stats
    /\ it' = IF tags = {} THEN [it EXCEPT !.untagged = @ + 1] ELSE it
    /\ pc' = "cleanup"
    /\ UNCHANGED << config, args, error, sauce, deepbooru, total_posts, index,
                    post, tags, limit_reached, tmp_file, remote, calls, events >>

\* Faulty variant of Cleanup: the temporary file is left in place.
CleanupKeepsFile ==
    /\ pc = "cleanup"
    /\ tmp_file # "None"
    /\ pc' = "patch"
    /\ UNCHANGED << config, args, error, sauce, deepbooru, total_posts, index,
                    post, tags, limit_reached, tmp_file, stats, remote, calls,
                    it, events >>

\* main(), lines 255-257: os.path.exists(tmp_file), then os.remove.
Cleanup ==
    /\ pc = "cleanup"
    /\ tmp_file # "None"
    /\ IF remote.file
       THEN /\ remote' = [remote EXCEPT !.file = FALSE]
            /\ events' = Append(events, "delete")
       ELSE UNCHANGED << remote, events >>
    /\ pc' = "patch"
    /\ UNCHANGED << config, args, error, sauce, deepbooru, total_posts, index,
                    post, tags, limit_reached, tmp_file, stats, calls, it >>

\* main(), line 256 with tmp_file = None: os.path.exists(None) raises
\* TypeError.
CleanupNone ==
    /\ pc = "cleanup"
    /\ tmp_file = "None"
    /\ events' = Append(events, "error")
    /\ Raise("TypeError")
    /\ UNCHANGED << config, args, sauce, deepbooru, total_posts, index, post,
                    tags, limit_reached, tmp_file, stats, remote, calls, it >>

\* main(), line 263: the post is pushed when tags were discovered.
Pushes == tags # {}

\* main(), lines 259-265 with update_post succeeding: remove-tags, the
\* placeholder removal, the push.
Patch ==
    /\ pc = "patch"
    /\ Pushes
    /\ \E order \in Orderings(RemoveTags(post.tags, args.remove_tags)) :
          LET final == Range(RemovePlaceholders(order, 1))
          IN /\ post' = [post EXCEPT !.tags = final]
             /\ remote' = [remote EXCEPT !.tags = final]
             /\ it' = [it EXCEPT !.updates = @ + 1, !.pushed = final]
    /\ calls' = [calls EXCEPT !.update = @ + 1]
    /\ events' = Append(events, "patch")
    /\ pc' = "check_limit"
    /\ UNCHANGED << config, args, error, sauce, deepbooru, total_posts, index,
                    tags, limit_reached, tmp_file, stats >>

\* main(), lines 259-265 with szuru.update_post raising: remove-tags and the
\* placeholder removal are done on post.tags, the push fails and nothing
\* catches it in the loop.
PatchFails ==
    /\ pc = "patch"
    /\ Pushes
    /\ \E order \in Orderings(RemoveTags(post.tags, args.remove_tags)) :
          post' = [post EXCEPT !.tags = Range(RemovePlaceholders(order, 1))]
    /\ it' = [it EXCEPT !.updates = @ + 1]
    /\ calls' = [calls EXCEPT !.update = @ + 1]
    /\ events' = events \o << "patch", "error" >>
    /\ Raise("update_post")
    /\ UNCHANGED << config, args, sauce, deepbooru, total_posts, index, tags,
                    limit_reached, tmp_file, stats, remote >>

\* main(), lines 259-263 when no tag was discovered: nothing is pushed.
PatchSkipped ==
    /\ pc = "patch"
    /\ ~Pushes
    /\ post' = [post EXCEPT !.tags = RemoveTags(@, args.remove_tags)]
    /\ pc' = "check_limit"
    /\ UNCHANGED << config, args, error, sauce, deepbooru, total_posts, index,
                    tags, limit_reached, tmp_file, stats, remote, calls, it,
                    events >>

\* main(), line 267: the loop is left after this post.
AbortsLoop == limit_reached /\ ~config.deepbooru_enabled

\* main(), line 268: the posts counted as untagged at the break.
RestUntagged == total_posts - index - 1

\* main(), lines 267-269: the rate-limit break.
Abort ==
    /\ pc = "check_limit"
    /\ AbortsLoop
    /\ stats' = [stats EXCEPT !.untagged = @ + RestUntagged]
    /\ it' = [it EXCEPT !.rest = RestUntagged, !.aborted = TRUE]
    /\ events' = Append(events, "break")
    /\ pc' = "summary"
    /\ UNCHANGED << config, args, error, sauce, deepbooru, total_posts, index,
                    post, tags, limit_reached, tmp_file, remote, calls >>

\* The end of an iteration without the break: on to the next index.
Continue ==
    /\ pc = "check_limit"
    /\ ~AbortsLoop
    /\ index' = index + 1
    /\ pc' = "loop"
    /\ UNCHANGED << config, args, error, sauce, deepbooru, total_posts, post,
                    tags, limit_reached, tmp_file, stats, remote, calls, it,
                    events >>

\* main(), lines 271-279: the totals are printed.
Summary ==
    /\ pc = "summary"
    /\ events' = Append(events, "summary")
    /\ pc' = "done"
    /\ UNCHANGED << config, args, error, sauce, deepbooru, total_posts, index,
                    post, tags, limit_reached, tmp_file, stats, remote, calls,
                    it >>

Next ==
    \/ CheckConfig
    \/ parse_args
    \/ Construct
    \/ GetPosts
    \/ SankakuScrapeFails
    \/ SankakuPost
    \/ SankakuUsage
    \/ NextPost
    \/ LoopEnd
    \/ FetchMedia
    \/ FetchMediaFails
    \/ Search
    \/ SearchFails
    \/ SearchSkipped
    \/ Classify
    \/ ClassifyUnbound
    \/ ClassifyFails
    \/ ClassifySkipped
    \/ Cleanup
    \/ CleanupNone
    \/ Patch
    \/ PatchFails
    \/ PatchSkipped
    \/ Abort
    \/ Continue
    \/ Summary

Spec == Init /\ [][Next]_vars

(***************************************************************************)
(* The source normalisation of lines 241-246 on its own: it is applied     *)
(* again and again to a post whose source is any text of SourceTexts;      *)
(* events keeps the texts it gave.                                         *)
(***************************************************************************)
InitSource ==
    /\ config = [ saucenao_enabled |-> FALSE, deepbooru_enabled |-> TRUE,
                  deepbooru_forced |-> FALSE, public |-> FALSE ]
    /\ args = [ sankaku_url |-> "None", query |-> << "7" >>,
                add_tags |-> {}, remove_tags |-> {} ]
    /\ pc = "source"
    /\ error = "none"
    /\ sauce = FALSE
    /\ deepbooru = TRUE
    /\ total_posts = 1
    /\ index = 0
    /\ post \in [ tags : { {} }, relations : { <<>> }, source : SourceTexts ]
    /\ tags = {}
    /\ limit_reached = FALSE
    /\ tmp_file = "file"
    /\ stats = [ tagged |-> 0, deepbooru |-> 0, untagged |-> 0 ]
    /\ remote = [ tags |-> {}, file |-> TRUE ]
    /\ calls = NoCalls
    /\ it = NewIteration
    /\ events = <<>>

\* main(), lines 241-246, once more on the same post.
Normalize ==
    /\ pc = "source"
    /\ Len(events) < MaxApplications
    /\ post' = [post EXCEPT !.source = NormalizeSource(@)]
    /\ events' = Append(events, NormalizeSource(post.source))
    /\ UNCHANGED << config, args, pc, error, sauce, deepbooru, total_posts,
                    index, tags, limit_reached, tmp_file, stats, remote, calls,
                    it >>

NextSource == Normalize

SpecSource == InitSource /\ [][NextSource]_vars

(***************************************************************************)
(* The claims.                                                             *)
(***************************************************************************)

\* The run iterates over the posts of the query (no --sankaku_url).
InLoop == args.sankaku_url = "None"

Has(seq, e) == \E i \in 1..Len(seq) : seq[i] = e

\* The position of the first e in seq.
Pos(seq, e) == CHOOSE i \in 1..Len(seq) : seq[i] = e /\ \A j \in 1..(i - 1) : seq[j] # e

\* Exceptions raised by the script's own statements, not by a collaborator.
ScriptErrors == {"TypeError", "UnboundLocalError"}

\* The current iteration is over: it ran to its end, or a statement of the
\* script raised.
IterationOver == pc = "check_limit" \/ (pc = "crashed" /\ error \in ScriptErrors)

\* The run is over, no collaborator having raised.
RunOver == pc = "done" \/ (pc = "crashed" /\ error \in ScriptErrors)

\* The search client answered for the current post.
SearchAnswered == it.limit_long # -1

\* The tags the search client and the classifier returned for the current post.
Found == it.found_search \cup it.found_classifier

\* The tags discovered for the current post: those the search client and the
\* classifier returned and those copied from related posts.
Discovered == it.found_search \cup it.found_classifier \cup it.copied

\* C1: in query-iteration mode, a post for which the search client or the
\* classifier returned a tag is pushed with update-post, the pushed tag set is
\* (pre-existing + discovered + add-tags) - remove-tags - {deepbooru, tagme},
\* and that set is not empty.
C1_PushedTagSet ==
    (InLoop /\ pc = "check_limit" /\ (it.search_hit \/ it.classify_hit)) =>
        /\ it.updates = 1
        /\ it.pushed =
             ((it.pre \cup Discovered \cup args.add_tags) \ args.remove_tags)
                \ Placeholders
        /\ it.pushed # {}

\* C2: in query-iteration mode, a post for which the search client returned no
\* tag while the classifier is disabled is counted as untagged exactly once and
\* is not pushed; no iteration pushes more than once, or without a discovered
\* tag.
C2_UntaggedOnceNoPush ==
    /\ (InLoop /\ IterationOver /\ SearchAnswered /\ ~it.search_hit
            /\ ~config.deepbooru_enabled) =>
          (it.untagged = 1 /\ it.updates = 0)
    /\ (InLoop /\ IterationOver) =>
          (it.updates <= 1 /\ (it.updates = 1 => Found # {}))

\* C3: when the search client reported a long-period quota of 0 at the post
\* of index i and the classifier is disabled, the loop stops after that post
\* (no later post is taken) and the unvisited total - i - 1 posts are counted
\* as untagged.
C3_AbortCountsRest ==
    (InLoop /\ RunOver /\ calls.limit_at # -1 /\ ~config.deepbooru_enabled) =>
        /\ calls.fetch = calls.limit_at + 1
        /\ calls.download <= calls.limit_at + 1
        /\ calls.search = calls.limit_at + 1
        /\ it.rest = total_posts - calls.limit_at - 1

\* The search client reported a long-period quota of 0 and a classifier is
\* enabled.
LimitedWithClassifier == calls.limit_at # -1 /\ config.deepbooru_enabled

C4_State ==
    LimitedWithClassifier =>
        /\ ~it.aborted
        /\ (pc = "check_limit" /\ index > calls.limit_at) =>
              (it.searched = 0 /\ it.classified = 1)
        /\ pc = "done" => (index = total_posts /\ calls.fetch = total_posts)

C4_Step ==
    LimitedWithClassifier => calls'.search = calls.search

\* C4: once the search client reported a long-period quota of 0 with the
\* classifier enabled, the search client is not called again, the loop is not
\* left by the rate-limit break, and every later post goes through the
\* classifier (a run that ends normally has visited every post).
C4_ClassifierOnlyAfterLimit == []C4_State /\ [][C4_Step]_vars

\* C4 witness: a post after the one that hit the limit has gone through the
\* classifier without a search.
C4_Witness ==
    /\ LimitedWithClassifier
    /\ pc = "check_limit"
    /\ index > calls.limit_at
    /\ it.classified = 1
    /\ it.searched = 0

\* C5: an answer with short-period quota 0 and long-period quota above 0 makes
\* the process sleep 35 seconds and then call the search client a second time
\* for the same post.
C5_SecondCallSamePost ==
    (InLoop /\ pc = "check_limit" /\ it.limit_short = 0 /\ it.limit_long > 0) =>
        (it.slept = SleepSeconds /\ it.searched = 2)

\* C6 as stated: a failure while processing one post does not end the run;
\* every remaining post of the query is still processed.
C6_FailureDoesNotEndRun ==
    (InLoop /\ pc \in {"done", "crashed"} /\ error # "none") =>
        calls.fetch = total_posts

\* C6 as amended: a failure while processing one post is logged by the
\* catch-all around main() and ends the run there: no later post is taken and
\* no summary is printed.
C6_FailureEndsRun ==
    (InLoop /\ error # "none") =>
        /\ pc = "crashed"
        /\ events[Len(events)] = "error"
        /\ calls.fetch = index + 1
        /\ ~Has(events, "summary")

\* C6 witness: update-post raised while posts of the query remained.
C6_Witness ==
    /\ InLoop
    /\ pc = "crashed"
    /\ error = "update_post"
    /\ index + 1 < total_posts

\* C7: in query-iteration mode every processed post, whether a tag was
\* discovered or not, ends up on the server with every add-tag and without
\* any remove-tag.
C7_AddAndRemoveApplied ==
    (InLoop /\ pc = "check_limit") =>
        /\ args.add_tags \subseteq remote.tags
        /\ remote.tags \cap args.remove_tags = {}

\* --sankaku_url with the non-numeric query "7e".
SankakuUsageError == args.sankaku_url # "None" /\ args.query = << "7", "e" >>

\* C8: --sankaku_url with a non-numeric query ends the process at once: no
\* post list and no post is requested, nothing is pushed and no summary is
\* printed.
C8_UsageErrorBeforeServer ==
    SankakuUsageError =>
        /\ calls.get_posts = 0
        /\ calls.fetch = 0
        /\ calls.update = 0
        /\ pc \notin {"summary", "done"}
        /\ ~Has(events, "summary")

\* The queries with the reserved token: "type:x" and "a type:".
TypeQueries ==
    { << "t", "y", "p", "e", ":", "x" >>,
      << "a", " ", "t", "y", "p", "e", ":" >> }

\* C9: a query with the reserved token "type:" ends the process before any
\* collaborator is constructed or called and before any counter changes.
C9_TypeTokenExitsFirst ==
    args.query \in TypeQueries =>
        /\ calls = NoCalls
        /\ ~sauce
        /\ ~deepbooru
        /\ stats = [ tagged |-> 0, deepbooru |-> 0, untagged |-> 0 ]
        /\ pc \in {"start", "parse_args", "exited"}

\* C9 witness: the process has exited on the token, which stood after other
\* text in the query, with a collaborator enabled.
C9_Witness ==
    /\ args.query = << "a", " ", "t", "y", "p", "e", ":" >>
    /\ pc = "exited"
    /\ Has(events, "critical")
    /\ config.saucenao_enabled

\* C10 as stated: within an iteration the temporary file is deleted only
\* after the push to the server.
C10_DeleteAfterPatch ==
    (InLoop /\ Has(events, "patch") /\ Has(events, "delete")) =>
        Pos(events, "patch") < Pos(events, "delete")

\* The steps of an iteration in the order the loop body takes them.
StepOrder ==
    << "download", "search", "sleep", "classify", "delete", "patch", "break" >>

Rank(e) == CHOOSE i \in 1..Len(StepOrder) : StepOrder[i] = e

\* C10 as amended: a post is processed to completion in the order download,
\* search/classify, delete temp file, patch before the next post is taken;
\* the temporary file is deleted before the push to the server.
C10_DeleteBeforePatch ==
    InLoop =>
        /\ \A i, j \in 1..Len(events) :
              (i < j /\ events[i] \in Range(StepOrder)
                     /\ events[j] \in Range(StepOrder)) =>
                 Rank(events[i]) < Rank(events[j])
        /\ (pc \in {"patch", "check_limit"} /\ Has(events, "download")) =>
              (Has(events, "delete") /\ ~remote.file)
        /\ pc \in {"fetch_media", "search", "classify", "cleanup", "patch",
                   "check_limit"} => calls.fetch = index + 1
        /\ pc = "loop" => calls.fetch = index

\* C10 witness: an iteration that downloaded, deleted the file and then
\* pushed the post.
C10_Witness ==
    /\ InLoop
    /\ pc = "check_limit"
    /\ Has(events, "download")
    /\ Has(events, "delete")
    /\ Has(events, "patch")
    /\ Pos(events, "delete") < Pos(events, "patch")

\* --sankaku_url with the post id "7".
SankakuRun == args.sankaku_url # "None" /\ isnumeric(args.query)

\* C11: with --sankaku_url and a numeric query, once the page is scraped the
\* search client and the classifier are never called, update_post is called
\* exactly once with the given URL as the source, and exactly one counter is
\* raised by one: "tagged" when the update succeeds, "untagged" when it fails;
\* the failure is caught and the run goes on to the summary.
C11_SankakuPostOnce ==
    (SankakuRun /\ pc \in {"summary", "done", "crashed"}
        /\ error # "scrape_sankaku")
    => /\ pc # "crashed"
       /\ error = "none"
       /\ calls.search = 0
       /\ calls.classify = 0
       /\ calls.update = 1
       /\ post.source = << args.sankaku_url >>
       /\ \/ /\ ~Has(events, "error")
             /\ remote.tags = post.tags
             /\ stats = [ tagged |-> 1, deepbooru |-> 0, untagged |-> 0 ]
          \/ /\ Has(events, "error")
             /\ stats = [ tagged |-> 0, deepbooru |-> 0, untagged |-> 1 ]

\* A --sankaku_url run whose update failed and which reached its end.
C11_Witness ==
    /\ SankakuRun
    /\ pc = "done"
    /\ Has(events, "error")
    /\ calls.update = 1
    /\ stats.untagged = 1

\* The lines of a source text that are the marker of the classifier.
Markers(source) ==
    { i \in 1..Len(splitlines(source)) : splitlines(source)[i] = << "Deepbooru" >> }

\* C12: the source normalisation of the classifier branch is idempotent: for
\* every source text, applying it a second time gives the text the first
\* application gave, and that text holds exactly one classifier marker.
C12_NormalizeIdempotent ==
    (pc = "source" /\ Len(events) >= 2)
    => /\ events[2] = events[1]
       /\ Cardinality(Markers(events[1])) = 1

\* C13: an iteration that skipped the download (public server, classifier
\* disabled) holds no temporary file, and its clean-up is a no-op: having
\* reached the clean-up it runs to the end of the loop body, nothing is
\* deleted, and the post is pushed when tags were discovered.
C13_CleanupWithoutFile ==
    (InLoop /\ tmp_file = "None"
        /\ (pc = "check_limit" \/ (pc = "crashed" /\ error = "TypeError")))
    => /\ pc = "check_limit"
       /\ ~Has(events, "delete")
       /\ (tags # {} => it.updates = 1)

\* C14: whenever update_post is called in a run over a query, the tag list it
\* is given holds neither "deepbooru" nor "tagme", whatever the list held and
\* in whatever order.
C14_NoPlaceholderPushed ==
    (InLoop /\ Has(events, "patch") /\ it.updates = 1)
    => it.pushed \cap Placeholders = {}

\* The search client's answer in this iteration: the short-period quota is
\* used up, the long-period quota is not.
ShortQuotaOnly == it.limit_short = 0 /\ it.limit_long > 0

\* The number of times e occurs in seq.
Count(seq, e) == Cardinality({ i \in 1..Len(seq) : seq[i] = e })

\* C15: every answer of the search client with a short-period quota of 0 and
\* a long-period quota above 0 is followed by exactly one sleep of 35 seconds,
\* before anything else happens and so before the next search call, for every
\* post again; it does not set the rate-limit flag, does not end the loop and
\* does not switch the search client off.  The flag is set exactly when the
\* long-period quota is 0.
C15_ShortQuotaSleepsOnly ==
    (InLoop /\ SearchAnswered)
    => /\ limit_reached <=> (it.limit_long = 0)
       /\ ShortQuotaOnly
            => /\ it.slept = SleepSeconds
               /\ Count(events, "sleep") = 1
               /\ Pos(events, "sleep") = Pos(events, "search") + 1
               /\ it.searched = 1
               /\ config.saucenao_enabled
               /\ ~it.aborted
               /\ it.rest = 0
               /\ calls.slept >= SleepSeconds

\* The second post in a row whose search answer had a used-up short-period
\* quota only, at the end of its iteration: the run slept twice, the flag is
\* not set and the search client is still enabled.
C15_Witness ==
    /\ InLoop
    /\ index = 1
    /\ pc = "check_limit"
    /\ ShortQuotaOnly
    /\ it.slept = SleepSeconds
    /\ calls.slept = SleepSeconds + SleepSeconds
    /\ ~limit_reached
    /\ config.saucenao_enabled

\* The names of the related post's tags whose category is neither "default"
\* nor "meta".
CharacterisingTags ==
    { RelatedPostTags[i].primary_name :
        i \in { j \in 1..Len(RelatedPostTags) :
                  RelatedPostTags[j].category \notin {"default", "meta"} } }

\* C16: for a post with a relation, the relation tag copier copies exactly
\* the related post's tags whose category is neither "default" nor "meta".
C16_CopiesCharacterisingTags ==
    (InLoop /\ it.classified = 1 /\ post.relations # <<>>)
    => it.copied = CharacterisingTags

\* C17: in a run over a query whose loop ends without an exception, every
\* post is counted exactly once: no iteration raises more than one of the
\* three counters, and at the end the three counters add up to the number of
\* posts.
C17_EveryPostCountedOnce ==
    /\ (InLoop /\ pc = "check_limit")
         => it.tagged + it.deep + it.untagged = 1
    /\ (InLoop /\ pc = "done")
         => stats.tagged + stats.deepbooru + stats.untagged = total_posts

\* C18: with the search client or the classifier enabled, the loop calls only
\* a collaborator that was constructed at start-up: the search client only
\* when it is enabled, the classifier only when it is enabled, and it never
\* reaches for one that does not exist.
C18_OnlyConstructedCollaborators ==
    InLoop
    => /\ calls.search > 0 => sauce
       /\ calls.classify > 0 => (deepbooru /\ config.deepbooru_enabled)
       /\ error # "UnboundLocalError"

====
